---- MODULE Spec2Model ----
(***************************************************************************)
(* Zone-Zero lobby server (zone-zero-server.py).                           *)
(*                                                                         *)
(* The server is one asyncio process.  Every websocket connection runs the *)
(* coroutine websocket_endpoint, every HTTP request runs its own handler   *)
(* coroutine; all of them share the dictionaries `lobbies` and `clients`.  *)
(* A coroutine runs without interruption between two awaits, and may be    *)
(* suspended at every network send (send_json).  An action of this module  *)
(* is therefore one such uninterrupted segment: the receipt of a message   *)
(* up to the first send to another connection, or the completion of a      *)
(* pending send up to the next one.  A reply to the handler's own          *)
(* connection that ends the handling of a message changes no shared state, *)
(* so it is taken together with the segment that precedes it.              *)
(*                                                                         *)
(* Python objects are shared by reference: a handler keeps using the lobby *)
(* dictionary and the connection list it looked up even when another       *)
(* handler has removed them from `lobbies` / `clients` in the meantime.    *)
(* The objects live in lobj / clients (indexed by lobby id, which is       *)
(* unique per object); the dictionaries are lobbies (creator -> id) and    *)
(* client_keys (the ids that are keys of `clients`).                       *)
(***************************************************************************)
EXTENDS Integers, Sequences, FiniteSets, TLC

VARIABLES
    lobbies,      \* dict lobbies: creator handle -> id of the lobby object
    lobj,         \* the lobby objects ever created: id -> lobby record
    clients,      \* the connection-list objects ever created: id -> Seq(conn)
    client_keys,  \* the ids that are currently keys of dict clients
    nextId,       \* next fresh lobby id (uuid4)
    owner,        \* id -> the task whose create made the lobby
    alive,        \* conn -> transport still open
    h,            \* task -> position and locals of its handler coroutine
    ev,           \* the segment that ran last: operation, inputs, outcome
    nconn,        \* websocket connections accepted so far
    nmsg,         \* messages and requests the run may still receive
    ndrop         \* transports lost so far

vars == <<lobbies, lobj, clients, client_keys, nextId, owner, alive, h, ev, nconn,
          nmsg, ndrop>>

----------------------------------------------------------------------------
\* Bounds of the model

MaxMsgs == 3
MaxDrops == 1

\* Websocket connections, in the order in which the server accepts them, and
\* HTTP request tasks
ConnSeq == <<"c1", "c2", "c3">>
Conns == {ConnSeq[k] : k \in 1..Len(ConnSeq)}
Https == {"h1"}
Tasks == Conns \cup Https

\* Handles are character strings; modelled as sequences of characters.
Alice == <<"@", "A">>
Bob == <<"@", "B">>
Carol == <<"@", "C">>
Dave == <<"@", "D">>
Eve == <<"@", "E">>
NoSigil == <<"B", "o">>
OnlySigil == <<"@">>

ValidSeq == <<Alice, Bob, Carol, Dave, Eve>>
ValidHandles == {ValidSeq[k] : k \in 1..Len(ValidSeq)}
InvalidHandles == {NoSigil, OnlySigil}

\* Messages of the run: the model lets the server receive MaxMsgs of them
\* from its start, and one less in a run that begins after
\* the messages that set up a lobby.
Remaining(setup) == IF setup THEN MaxMsgs - 1 ELSE MaxMsgs

\* Inputs of the requests
Seeds == {7}
Coords == {<<1, 2, 3>>}
ItemIds == {"i1", "i2"}
Payloads ==
    {<<[item_id |-> "i1", is_bonus |-> FALSE]>>,
     <<[item_id |-> "i1", is_bonus |-> FALSE], [item_id |-> "i2", is_bonus |-> TRUE],
       [item_id |-> "", is_bonus |-> FALSE]>>}
Texts == {<<"h", "i">>, <<" ">>}
NoDurations == <<>>
DurationPayloads == {NoDurations, [b \in {"slow_others"} |-> 90]}
NoMultipliers == <<>>
MultiplierPayloads == {NoMultipliers, [m \in {"slow_multiplier"} |-> 3]}
BonusKinds == {"disable_control_others", "slow_others", "other"}

----------------------------------------------------------------------------
\* Program constants

max_players == 4
DefaultDuration == 50        \* 5.0, in tenths
SlowMultiplier == 5          \* 0.5, in tenths
SpeedUpMultiplier == 20      \* 2.0, in tenths

Origin == <<0, 0, 0>>

BonusTypes == {"disable_control_others", "slow_others", "speed_up_others"}

----------------------------------------------------------------------------
\* Pure helpers

is_valid_username(u) == (Len(u) >= 1 /\ u[1] = "@") /\ Len(u) > 1

Range(s) == {s[k] : k \in 1..Len(s)}

InSeq(x, s) == \E k \in 1..Len(s) : s[k] = x

\* list.remove(x): removes the first occurrence (the caller checks presence)
RECURSIVE ListRemove(_, _)
ListRemove(s, x) ==
    IF s = <<>> THEN <<>>
    ELSE IF Head(s) = x THEN Tail(s)
    ELSE <<Head(s)>> \o ListRemove(Tail(s), x)

\* del d[k]
DictDel(d, k) == [x \in (DOMAIN d) \ {k} |-> d[x]]

\* d[k] = v
DictSet(d, k, v) == [x \in (DOMAIN d) \cup {k} |-> IF x = k THEN v ELSE d[x]]

NewLobby(u) ==
    [creator |-> u,
     players |-> <<u>>,
     status |-> "waiting",
     scores |-> DictSet(<<>>, u, 0),
     seed |-> 0,
     positions |-> DictSet(<<>>, u, Origin),
     items |-> <<>>,
     ready_players |-> <<>>,
     messages |-> <<>>,
     bonus_durations |-> [b \in BonusTypes |-> DefaultDuration],
     bonus_multipliers |-> [m \in {"slow_multiplier", "speed_up_multiplier"} |->
                              IF m = "slow_multiplier" THEN SlowMultiplier
                              ELSE SpeedUpMultiplier]]

\* The capacity test off by one
IsFullOffByOne(lobby) == Len(lobby.players) > max_players

\* len(lobby["players"]) >= lobby["max_players"]
IsFull(lobby) == Len(lobby.players) >= max_players

\* The score is raised but the item is not marked
CollectUpdateNoMark(lobby, u, item) ==
    [lobby EXCEPT !.scores = DictSet(@, u, (IF u \in DOMAIN @ THEN @[u] ELSE 0) + 1)]

\* collect_item: items[item]["collected"] = True; scores[u] = scores.get(u, 0) + 1
CollectUpdate(lobby, u, item) ==
    [lobby EXCEPT !.items[item].collected = TRUE,
                  !.scores = DictSet(@, u, (IF u \in DOMAIN @ THEN @[u] ELSE 0) + 1)]

\* A join that puts the joiner in front of the members
JoinLobbyAtFront(lobby, u) ==
    [lobby EXCEPT !.players = <<u>> \o @,
                  !.scores = DictSet(@, u, 0),
                  !.positions = DictSet(@, u, Origin)]

\* A join that puts the lobby back to waiting
JoinLobbyReopens(lobby, u) ==
    [lobby EXCEPT !.players = Append(@, u),
                  !.scores = DictSet(@, u, 0),
                  !.positions = DictSet(@, u, Origin),
                  !.status = "waiting"]

\* join: players.append, scores[u] = 0, positions[u] = origin
JoinLobby(lobby, u) ==
    [lobby EXCEPT !.players = Append(@, u),
                  !.scores = DictSet(@, u, 0),
                  !.positions = DictSet(@, u, Origin)]

\* The removal forgets the score
RemovePlayerKeepsScore(lobby, u) ==
    [lobby EXCEPT !.players = ListRemove(@, u),
                  !.positions = DictDel(@, u),
                  !.ready_players = ListRemove(@, u)]

\* The removal leaves the ready list alone
RemovePlayerKeepsReady(lobby, u) ==
    [lobby EXCEPT !.players = ListRemove(@, u),
                  !.scores = DictDel(@, u),
                  !.positions = DictDel(@, u)]

\* leave / handle_disconnect: players.remove, del scores, del positions,
\* ready_players.remove when present
RemovePlayer(lobby, u) ==
    [lobby EXCEPT !.players = ListRemove(@, u),
                  !.scores = DictDel(@, u),
                  !.positions = DictDel(@, u),
                  !.ready_players = ListRemove(@, u)]

\* register_items: the items dictionary built from the payload list
RECURSIVE BuildItems(_, _)
BuildItems(items, payload) ==
    IF payload = <<>> THEN items
    ELSE LET item == Head(payload) IN
         BuildItems(IF item.item_id # ""
                    THEN DictSet(items, item.item_id,
                                 [collected |-> FALSE, is_bonus |-> item.is_bonus])
                    ELSE items,
                    Tail(payload))

\* str.strip() leaves nothing
IsBlank(text) == \A k \in 1..Len(text) : text[k] = " "

\* collect_bonus: the first precondition that fails, in the order of the
\* code's tests ("ok" when none fails).  The collected test comes first.
BonusCheckCollectedFirst(lobby, u, item) ==
    IF ~InSeq(u, lobby.players) THEN "NotMember"
    ELSE IF item \notin DOMAIN lobby.items THEN "ItemNotFound"
    ELSE IF lobby.items[item].collected THEN "AlreadyCollected"
    ELSE IF ~lobby.items[item].is_bonus THEN "WrongItemKind"
    ELSE "ok"

\* collect_bonus: the first precondition that fails, in the order of the
\* code's tests ("ok" when none fails)
BonusCheck(lobby, u, item) ==
    IF ~InSeq(u, lobby.players) THEN "NotMember"
    ELSE IF item \notin DOMAIN lobby.items THEN "ItemNotFound"
    ELSE IF ~lobby.items[item].is_bonus THEN "WrongItemKind"
    ELSE IF lobby.items[item].collected THEN "AlreadyCollected"
    ELSE "ok"

\* bonus_durations.get(bonus_type), 5.0 when the key is missing
Duration(lobby, btype) ==
    IF btype \in DOMAIN lobby.bonus_durations THEN lobby.bonus_durations[btype]
    ELSE DefaultDuration

\* bonus_multipliers.get(...) with its default; 0 for an effect that
\* carries no multiplier
Multiplier(lobby, btype) ==
    LET m == lobby.bonus_multipliers IN
    IF btype = "slow_others"
    THEN (IF "slow_multiplier" \in DOMAIN m THEN m["slow_multiplier"]
          ELSE SlowMultiplier)
    ELSE IF btype = "speed_up_others"
    THEN (IF "speed_up_multiplier" \in DOMAIN m THEN m["speed_up_multiplier"]
          ELSE SpeedUpMultiplier)
    ELSE 0

\* for c, l in lobbies.items(): if l["lobby_id"] == lobby_id
FindById(lid) == {c \in DOMAIN lobbies : lobbies[c] = lid}

\* The registry key of the lobby with id lid (when FindById(lid) # {})
KeyOf(lid) == CHOOSE c \in DOMAIN lobbies : lobbies[c] = lid

----------------------------------------------------------------------------
\* Handler state

Idle ==
    [pc |-> "recv", op |-> "", key |-> <<>>, lid |-> 0, user |-> <<>>,
     msg |-> "", snap |-> <<>>, i |-> 0, log |-> <<>>, to |-> "",
     cont |-> "", reply |-> "", users |-> <<>>,
     btype |-> "", dur |-> 0, mult |-> 0, j |-> 0, fx |-> <<>>]

Ended == [Idle EXCEPT !.pc = "ended"]
Crashed == [Idle EXCEPT !.pc = "crashed"]

Event(op, t, key, lid, user, reply, msg, snap, log) ==
    [op |-> op, by |-> t, key |-> key, lid |-> lid, user |-> user,
     reply |-> reply, msg |-> msg, snap |-> snap, log |-> log, fx |-> <<>>]

NoEvent == Event("", "", <<>>, 0, <<>>, "", "", <<>>, <<>>)

\* A send inside a broadcast completed and the broadcast goes on
Sent == Event("send", "", <<>>, 0, <<>>, "", "", <<>>, <<>>)

\* Inputs.  Handles are only compared with each other and validated, and
\* connections are only compared with each other, so a request names a handle
\* the server already holds, the first valid handle it does not hold, or an
\* invalid one; and a message arrives on an accepted connection or on the
\* next one to be accepted.
Held(u) ==
    \/ \E id \in DOMAIN lobj : InSeq(u, lobj[id].players)
    \/ \E t \in Tasks : InSeq(u, h[t].users)

FirstFree ==
    LET free == {k \in 1..Len(ValidSeq) : ~Held(ValidSeq[k])} IN
    IF free = {} THEN {}
    ELSE {ValidSeq[CHOOSE k \in free : \A o \in free : k <= o]}

Names == {u \in ValidHandles : Held(u)} \cup FirstFree \cup {NoSigil}

CreateNames == Names \cup {OnlySigil}

\* join: the creator named is the key of a lobby; or it is not, or it is
\* invalid, and then the joiner is one valid or one invalid handle.
JoinPairs ==
    {<<cr, u>> : cr \in DOMAIN lobbies, u \in Names}
    \cup {<<cr, u>> : cr \in FirstFree \cup {NoSigil}, u \in {Alice, NoSigil}}

\* The other actions name a lobby id and a handle: the id of a registered
\* lobby with any handle, or an id that no lobby has.
Targets ==
    {<<lobbies[c], u>> : c \in DOMAIN lobbies, u \in Names} \cup {<<0, Alice>>}

LobbyIds == {lobbies[c] : c \in DOMAIN lobbies} \cup {0}

Accepted(c) == \E k \in 1..nconn : ConnSeq[k] = c

\* A message can be received by a connection whose coroutine waits in
\* receive_text and whose transport is open (websocket.accept, receive_text).
CanRecv(c) ==
    /\ nmsg > 0
    /\ h[c].pc = "recv"
    /\ alive[c]
    /\ \/ Accepted(c)
       \/ nconn < Len(ConnSeq) /\ c = ConnSeq[nconn + 1]

Recv(c) ==
    /\ CanRecv(c)
    /\ nmsg' = nmsg - 1
    /\ nconn' = IF Accepted(c) THEN nconn ELSE nconn + 1
    /\ UNCHANGED <<alive, ndrop>>

\* An HTTP request starts its handler
Request(t) ==
    /\ nmsg > 0
    /\ h[t].pc = "recv"
    /\ nmsg' = nmsg - 1
    /\ UNCHANGED <<alive, ndrop, nconn>>

Receivers == {c \in Conns : CanRecv(c)}
Requesters == {t \in Https : nmsg > 0 /\ h[t].pc = "recv"}

\* Every handler but those of create, join and leave uses the sending
\* connection only to reply to it: the messages of the other actions are
\* taken to arrive on the first connection that can receive one.
Sender ==
    LET ks == {k \in 1..Len(ConnSeq) : ConnSeq[k] \in Receivers} IN
    IF ks = {} THEN {}
    ELSE {ConnSeq[CHOOSE k \in ks : \A o \in ks : k <= o]}

\* The handling of a message ends in this segment with reply r to the sender
\* (r = "none": nothing is sent).
Done(t, op, key, lid, user, r) ==
    /\ h' = [h EXCEPT ![t] = Idle]
    /\ ev' = Event(op, t, key, lid, user, r, "", <<>>, <<>>)

\* The handler fails in this segment with an exception that nothing catches:
\* the coroutine ends.
Fault(t, op, key, lid, user) ==
    /\ h' = [h EXCEPT ![t] = Crashed]
    /\ ev' = Event(op, t, key, lid, user, "fault", "", <<>>, <<>>)

\* notify_clients(lid, msg) is called at the end of this segment, the lists
\* in cl being the connection lists after the segment's own updates.
\* When there is somebody to send to, the coroutine is suspended in the first
\* send; cont says what follows the broadcast.
CanNotify(lid, cl) == lid \in client_keys /\ cl[lid] # <<>>

Notifying(op, key, lid, user, msg, cl, cont, reply, users) ==
    [Idle EXCEPT !.pc = "notify", !.op = op, !.key = key, !.lid = lid,
                 !.user = user, !.msg = msg, !.snap = cl[lid], !.i = 1,
                 !.to = cl[lid][1], !.cont = cont, !.reply = reply,
                 !.users = users]

StartNotify(t, op, key, lid, user, msg, cl, reply) ==
    IF CanNotify(lid, cl)
    THEN /\ h' = [h EXCEPT ![t] =
                    Notifying(op, key, lid, user, msg, cl, "reply", reply, <<>>)]
         /\ ev' = Event(op, t, key, lid, user, "pending", msg, cl[lid], <<>>)
    ELSE /\ h' = [h EXCEPT ![t] = Idle]
         /\ ev' = Event(op, t, key, lid, user, reply, msg, <<>>, <<>>)

----------------------------------------------------------------------------
\* Initial state: the server has started, nothing has been received.

Init ==
    /\ lobbies = <<>>
    /\ lobj = <<>>
    /\ clients = <<>>
    /\ client_keys = {}
    /\ nextId = 1
    /\ owner = <<>>
    /\ alive = [c \in Conns |-> TRUE]
    /\ h = [t \in Tasks |-> Idle]
    /\ ev = NoEvent
    /\ nconn = 0
    /\ nmsg = Remaining(FALSE)
    /\ ndrop = 0

----------------------------------------------------------------------------
\* action "create" and POST /create_lobby

\* The create without the test for an existing key
CreateLobbyOverwrites(t, op, u, conns) ==
    IF ~is_valid_username(u)
    THEN /\ Done(t, op, u, 0, u, "InvalidHandle")
         /\ UNCHANGED <<lobbies, lobj, clients, client_keys, nextId, owner>>
    ELSE /\ lobbies' = DictSet(lobbies, u, nextId)
         /\ lobj' = DictSet(lobj, nextId, NewLobby(u))
         /\ clients' = DictSet(clients, nextId, conns)
         /\ client_keys' = client_keys \cup {nextId}
         /\ nextId' = nextId + 1
         /\ owner' = DictSet(owner, nextId, t)
         /\ Done(t, op, u, nextId, u, "ok")

CreateLobby(t, op, u, conns) ==
    IF ~is_valid_username(u)
    THEN /\ Done(t, op, u, 0, u, "InvalidHandle")
         /\ UNCHANGED <<lobbies, lobj, clients, client_keys, nextId, owner>>
    ELSE IF u \in DOMAIN lobbies
    THEN /\ Done(t, op, u, 0, u, "DuplicateLobby")
         /\ UNCHANGED <<lobbies, lobj, clients, client_keys, nextId, owner>>
    ELSE /\ lobbies' = DictSet(lobbies, u, nextId)
         /\ lobj' = DictSet(lobj, nextId, NewLobby(u))
         /\ clients' = DictSet(clients, nextId, conns)
         /\ client_keys' = client_keys \cup {nextId}
         /\ nextId' = nextId + 1
         /\ owner' = DictSet(owner, nextId, t)
         /\ Done(t, op, u, nextId, u, "ok")

Create(c, u) ==
    /\ Recv(c)
    /\ CreateLobby(c, "create", u, <<c>>)

HttpCreate(t, u) ==
    /\ Request(t)
    /\ CreateLobby(t, "create_lobby", u, <<>>)

----------------------------------------------------------------------------
\* action "join"

Join(c, cr, u) ==
    /\ Recv(c)
    /\ UNCHANGED <<lobbies, nextId, owner, client_keys>>
    /\ IF ~(is_valid_username(cr) /\ is_valid_username(u))
       THEN /\ Done(c, "join", cr, 0, u, "InvalidHandle")
            /\ UNCHANGED <<lobj, clients>>
       ELSE IF cr \notin DOMAIN lobbies
       THEN /\ Done(c, "join", cr, 0, u, "NotFound")
            /\ UNCHANGED <<lobj, clients>>
       ELSE LET id == lobbies[cr]
                lobby == lobj[id]
            IN IF IsFull(lobby)
               THEN /\ Done(c, "join", cr, id, u, "Full")
                    /\ UNCHANGED <<lobj, clients>>
               ELSE IF InSeq(u, lobby.players)
               THEN /\ Done(c, "join", cr, id, u, "AlreadyMember")
                    /\ UNCHANGED <<lobj, clients>>
               ELSE IF lobby.status = "started"
               THEN /\ Done(c, "join", cr, id, u, "AlreadyStarted")
                    /\ UNCHANGED <<lobj, clients>>
               ELSE /\ lobj' = [lobj EXCEPT ![id] = JoinLobby(lobby, u)]
                    /\ IF id \in client_keys
                       THEN LET cl == [clients EXCEPT ![id] = Append(@, c)]
                            IN /\ clients' = cl
                               /\ StartNotify(c, "join", cr, id, u, "members", cl, "ok")
                       ELSE \* clients[lobby_id] raises KeyError
                            /\ UNCHANGED clients
                            /\ Fault(c, "join", cr, id, u)

\* POST /join_lobby
HttpJoin(t, cr, u) ==
    /\ Request(t)
    /\ UNCHANGED <<lobbies, nextId, owner, client_keys, clients>>
    /\ IF ~(is_valid_username(cr) /\ is_valid_username(u))
       THEN /\ Done(t, "join_lobby", cr, 0, u, "InvalidHandle")
            /\ UNCHANGED lobj
       ELSE IF cr \notin DOMAIN lobbies
       THEN /\ Done(t, "join_lobby", cr, 0, u, "NotFound")
            /\ UNCHANGED lobj
       ELSE LET id == lobbies[cr]
                lobby == lobj[id]
            IN IF IsFull(lobby)
               THEN /\ Done(t, "join_lobby", cr, id, u, "Full")
                    /\ UNCHANGED lobj
               ELSE IF InSeq(u, lobby.players)
               THEN /\ Done(t, "join_lobby", cr, id, u, "AlreadyMember")
                    /\ UNCHANGED lobj
               ELSE /\ lobj' = [lobj EXCEPT ![id] = JoinLobby(lobby, u)]
                    /\ StartNotify(t, "join_lobby", cr, id, u, "members", clients, "ok")

----------------------------------------------------------------------------
\* action "start" and POST /start_game

\* The start without the test of the requester
StartByAnyone(c, lid, u, seed) ==
    /\ Recv(c)
    /\ UNCHANGED <<lobbies, nextId, owner, client_keys, clients>>
    /\ IF FindById(lid) = {}
       THEN /\ Done(c, "start", seed, lid, u, "NotFound")
            /\ UNCHANGED lobj
       ELSE /\ lobj' = [lobj EXCEPT ![lid].status = "started", ![lid].seed = seed]
            /\ StartNotify(c, "start", seed, lid, u, "started", clients, "none")

Start(c, lid, u, seed) ==
    /\ Recv(c)
    /\ UNCHANGED <<lobbies, nextId, owner, client_keys, clients>>
    /\ IF FindById(lid) = {}
       THEN /\ Done(c, "start", seed, lid, u, "NotFound")
            /\ UNCHANGED lobj
       ELSE IF u # lobj[lid].creator
       THEN /\ Done(c, "start", seed, lid, u, "NotCreator")
            /\ UNCHANGED lobj
       ELSE /\ lobj' = [lobj EXCEPT ![lid].status = "started", ![lid].seed = seed]
            /\ StartNotify(c, "start", seed, lid, u, "started", clients, "none")

HttpStart(t, lid, u, seed, durations) ==
    /\ Request(t)
    /\ UNCHANGED <<lobbies, nextId, owner, client_keys, clients>>
    /\ IF FindById(lid) = {}
       THEN /\ Done(t, "start_game", seed, lid, u, "NotFound")
            /\ UNCHANGED lobj
       ELSE IF u # lobj[lid].creator
       THEN /\ Done(t, "start_game", seed, lid, u, "NotCreator")
            /\ UNCHANGED lobj
       ELSE /\ lobj' = [lobj EXCEPT
                          ![lid].bonus_durations =
                              IF durations # NoDurations THEN durations ELSE @,
                          ![lid].status = "started",
                          ![lid].seed = seed]
            /\ StartNotify(t, "start_game", seed, lid, u, "started", clients, "ok")

----------------------------------------------------------------------------
\* action "leave"

\* for client in clients[lobby_id]: the list iterator, at index i of the list
\* as it is now, moves to the next connection other than the sender's;
\* 0 when the iteration is over.
RECURSIVE CloseAdvance(_, _, _)
CloseAdvance(list, i, self) ==
    IF i > Len(list) THEN 0
    ELSE IF list[i] = self THEN CloseAdvance(list, i + 1, self)
    ELSE i

\* After the loop: del clients[lobby_id]; del lobbies[creator]; the ack
CloseFinish(t, lid, creator, u, snap, log, hadKey) ==
    IF hadKey /\ lid \notin client_keys
    THEN \* del clients[lobby_id] raises KeyError
         /\ h' = [h EXCEPT ![t] = Crashed]
         /\ ev' = Event("leave", t, creator, lid, u, "fault", "closed", snap, log)
         /\ UNCHANGED <<lobbies, client_keys>>
    ELSE /\ client_keys' = client_keys \ {lid}
         /\ IF creator \notin DOMAIN lobbies
            THEN \* del lobbies[creator] raises KeyError
                 /\ h' = [h EXCEPT ![t] = Crashed]
                 /\ ev' = Event("leave", t, creator, lid, u, "fault", "closed", snap, log)
                 /\ UNCHANGED lobbies
            ELSE /\ lobbies' = DictDel(lobbies, creator)
                 /\ h' = [h EXCEPT ![t] = Idle]
                 /\ ev' = Event("leave", t, creator, lid, u, "closed", "closed", snap, log)

Closing(lid, creator, u, snap, j, log, to) ==
    [Idle EXCEPT !.pc = "close", !.op = "leave", !.key = creator, !.lid = lid,
                 !.user = u, !.msg = "closed", !.snap = snap, !.i = j,
                 !.log = log, !.to = to]

Leave(c, lid, u) ==
    /\ Recv(c)
    /\ UNCHANGED <<nextId, owner>>
    /\ IF FindById(lid) = {}
       THEN /\ Done(c, "leave", <<>>, lid, u, "NotFound")
            /\ UNCHANGED <<lobbies, lobj, clients, client_keys>>
       ELSE LET creator == KeyOf(lid)
                lobby == lobj[lid]
            IN IF u = lobby.creator
               THEN /\ UNCHANGED <<lobj, clients>>
                    /\ IF lid \in client_keys
                       THEN LET j == CloseAdvance(clients[lid], 1, c) IN
                            IF j = 0
                            THEN CloseFinish(c, lid, creator, u, clients[lid], <<>>, TRUE)
                            ELSE /\ h' = [h EXCEPT ![c] =
                                            Closing(lid, creator, u, clients[lid], j,
                                                    <<>>, clients[lid][j])]
                                 /\ ev' = Event("leave", c, creator, lid, u, "pending",
                                                "closed", clients[lid], <<>>)
                                 /\ UNCHANGED <<lobbies, client_keys>>
                       ELSE CloseFinish(c, lid, creator, u, <<>>, <<>>, FALSE)
               ELSE /\ UNCHANGED <<lobbies, client_keys>>
                    /\ IF ~InSeq(u, lobby.players)
                       THEN /\ Done(c, "leave", creator, lid, u, "none")
                            /\ UNCHANGED <<lobj, clients>>
                       ELSE IF u \notin DOMAIN lobby.scores
                               \/ u \notin DOMAIN lobby.positions
                       THEN \* del raises KeyError
                            /\ lobj' = [lobj EXCEPT ![lid].players = ListRemove(@, u)]
                            /\ Fault(c, "leave", creator, lid, u)
                            /\ UNCHANGED clients
                       ELSE LET cl == IF lid \in client_keys
                                      THEN [clients EXCEPT ![lid] = ListRemove(@, c)]
                                      ELSE clients
                            IN /\ lobj' = [lobj EXCEPT ![lid] = RemovePlayer(lobby, u)]
                               /\ clients' = cl
                               /\ StartNotify(c, "leave", creator, lid, u, "members",
                                              cl, "left")

\* The pending closure notice to h[t].to completes (a failure is caught and
\* ignored), and the loop runs on to its next send or to its end.
CloseStep(t) ==
    /\ h[t].pc = "close"
    /\ UNCHANGED <<alive, nconn, nmsg, ndrop, nextId, owner, lobj, clients>>
    /\ LET s == h[t]
           log1 == Append(s.log, [to |-> s.to, ok |-> alive[s.to]])
           j == CloseAdvance(clients[s.lid], s.i + 1, t)
       IN IF j = 0
          THEN CloseFinish(t, s.lid, s.key, s.user, s.snap, log1, TRUE)
          ELSE /\ h' = [h EXCEPT ![t] =
                          Closing(s.lid, s.key, s.user, s.snap, j, log1,
                                  clients[s.lid][j])]
               /\ ev' = Sent
               /\ UNCHANGED <<lobbies, client_keys>>

----------------------------------------------------------------------------
\* actions "ready", "update_position", "register_items", "collect_item",
\* "send_message"

ReadyAgainSignals(c, lid, u) ==
    /\ Recv(c)
    /\ UNCHANGED <<lobbies, nextId, owner, client_keys, clients>>
    /\ IF FindById(lid) = {}
       THEN /\ Done(c, "ready", <<>>, lid, u, "NotFound")
            /\ UNCHANGED lobj
       ELSE IF ~InSeq(u, lobj[lid].players)
       THEN /\ Done(c, "ready", <<>>, lid, u, "NotMember")
            /\ UNCHANGED lobj
       ELSE LET ready == IF InSeq(u, lobj[lid].ready_players)
                         THEN lobj[lid].ready_players
                         ELSE Append(lobj[lid].ready_players, u) IN
            /\ lobj' = [lobj EXCEPT ![lid].ready_players = ready]
            /\ IF Len(ready) = Len(lobj[lid].players)
               THEN StartNotify(c, "ready", <<>>, lid, u, "start_game", clients, "none")
               ELSE Done(c, "ready", <<>>, lid, u, "none")

Ready(c, lid, u) ==
    /\ Recv(c)
    /\ UNCHANGED <<lobbies, nextId, owner, client_keys, clients>>
    /\ IF FindById(lid) = {}
       THEN /\ Done(c, "ready", <<>>, lid, u, "NotFound")
            /\ UNCHANGED lobj
       ELSE IF ~InSeq(u, lobj[lid].players)
       THEN /\ Done(c, "ready", <<>>, lid, u, "NotMember")
            /\ UNCHANGED lobj
       ELSE IF InSeq(u, lobj[lid].ready_players)
       THEN /\ Done(c, "ready", <<>>, lid, u, "none")
            /\ UNCHANGED lobj
       ELSE LET ready == Append(lobj[lid].ready_players, u) IN
            /\ lobj' = [lobj EXCEPT ![lid].ready_players = ready]
            /\ IF Len(ready) = Len(lobj[lid].players)
               THEN StartNotify(c, "ready", <<>>, lid, u, "start_game", clients, "none")
               ELSE Done(c, "ready", <<>>, lid, u, "none")

UpdatePosition(c, lid, u, p) ==
    /\ Recv(c)
    /\ UNCHANGED <<lobbies, nextId, owner, client_keys, clients>>
    /\ IF FindById(lid) = {}
       THEN /\ Done(c, "update_position", <<>>, lid, u, "NotFound")
            /\ UNCHANGED lobj
       ELSE IF ~InSeq(u, lobj[lid].players)
       THEN /\ Done(c, "update_position", <<>>, lid, u, "NotMember")
            /\ UNCHANGED lobj
       ELSE /\ lobj' = [lobj EXCEPT ![lid].positions = DictSet(@, u, p)]
            /\ StartNotify(c, "update_position", <<>>, lid, u, "update_position",
                           clients, "none")

\* The payload's items are added to the items the lobby has
RegisterItemsMerges(c, lid, payload) ==
    /\ Recv(c)
    /\ UNCHANGED <<lobbies, nextId, owner, client_keys, clients>>
    /\ IF FindById(lid) = {}
       THEN /\ Done(c, "register_items", payload, lid, <<>>, "NotFound")
            /\ UNCHANGED lobj
       ELSE /\ lobj' = [lobj EXCEPT ![lid].items = BuildItems(@, payload)]
            /\ StartNotify(c, "register_items", payload, lid, <<>>, "items_registered",
                           clients, "none")

RegisterItems(c, lid, payload) ==
    /\ Recv(c)
    /\ UNCHANGED <<lobbies, nextId, owner, client_keys, clients>>
    /\ IF FindById(lid) = {}
       THEN /\ Done(c, "register_items", payload, lid, <<>>, "NotFound")
            /\ UNCHANGED lobj
       ELSE /\ lobj' = [lobj EXCEPT ![lid].items = BuildItems(<<>>, payload)]
            /\ StartNotify(c, "register_items", payload, lid, <<>>, "items_registered",
                           clients, "none")

CollectItem(c, lid, u, item) ==
    /\ Recv(c)
    /\ UNCHANGED <<lobbies, nextId, owner, client_keys, clients>>
    /\ IF FindById(lid) = {}
       THEN /\ Done(c, "collect_item", item, lid, u, "NotFound")
            /\ UNCHANGED lobj
       ELSE IF ~InSeq(u, lobj[lid].players)
       THEN /\ Done(c, "collect_item", item, lid, u, "NotMember")
            /\ UNCHANGED lobj
       ELSE IF item \notin DOMAIN lobj[lid].items
       THEN /\ Done(c, "collect_item", item, lid, u, "ItemNotFound")
            /\ UNCHANGED lobj
       ELSE IF lobj[lid].items[item].collected
       THEN /\ Done(c, "collect_item", item, lid, u, "AlreadyCollected")
            /\ UNCHANGED lobj
       ELSE /\ lobj' = [lobj EXCEPT ![lid] = CollectUpdate(@, u, item)]
            /\ StartNotify(c, "collect_item", item, lid, u, "item_collected",
                           clients, "none")

SendMessage(c, lid, u, text) ==
    /\ Recv(c)
    /\ UNCHANGED <<lobbies, nextId, owner, client_keys, clients>>
    /\ IF FindById(lid) = {}
       THEN /\ Done(c, "send_message", text, lid, u, "NotFound")
            /\ UNCHANGED lobj
       ELSE IF ~InSeq(u, lobj[lid].players)
       THEN /\ Done(c, "send_message", text, lid, u, "NotMember")
            /\ UNCHANGED lobj
       ELSE IF text = <<>> \/ IsBlank(text)
       THEN /\ Done(c, "send_message", text, lid, u, "InvalidPayload")
            /\ UNCHANGED lobj
       ELSE /\ lobj' = [lobj EXCEPT ![lid].messages =
                          Append(@, [username |-> u, message |-> text])]
            /\ StartNotify(c, "send_message", text, lid, u, "chat_message",
                           clients, "none")

----------------------------------------------------------------------------
\* action "collect_bonus"

\* for player in lobby["players"]: if player != username: notify_clients(...)
\* The loop over the live member list, from index j, up to the next effect
\* broadcast that has somebody to send to (canSend) or to the end of the
\* loop.  fx lists the effect broadcasts begun so far.
RECURSIVE BonusRun(_, _, _, _, _, _, _, _)
BonusRun(players, j, u, canSend, to, dur, mult, fx) ==
    IF j > Len(players) THEN [st |-> "ended", j |-> j, fx |-> fx]
    ELSE IF players[j] = u
    THEN BonusRun(players, j + 1, u, canSend, to, dur, mult, fx)
    ELSE LET fx2 == Append(fx, [target |-> players[j], duration |-> dur,
                                mult |-> mult, to |-> to])
         IN IF canSend THEN [st |-> "notify", j |-> j, fx |-> fx2]
            ELSE BonusRun(players, j + 1, u, canSend, to, dur, mult, fx2)

\* The handler goes on after a broadcast, with the loop at index j; cl are
\* the connection lists after this segment's own updates.
BonusContinue(t, lid, item, u, btype, dur, mult, j, fx, cl) ==
    LET canSend == CanNotify(lid, cl)
        r == BonusRun(IF btype \in BonusTypes THEN lobj[lid].players ELSE <<>>,
                      j, u, canSend, IF canSend THEN cl[lid] ELSE <<>>,
                      dur, mult, fx)
    IN IF r.st = "notify"
       THEN /\ h' = [h EXCEPT ![t] =
                       [Notifying("collect_bonus", item, lid, u, "apply_effect",
                                  cl, "effect", "none", <<>>)
                          EXCEPT !.btype = btype, !.dur = dur, !.mult = mult,
                                 !.j = r.j, !.fx = r.fx]]
            /\ ev' = [Event("collect_bonus", t, item, lid, u, "pending",
                            "apply_effect", cl[lid], <<>>) EXCEPT !.fx = r.fx]
       ELSE /\ h' = [h EXCEPT ![t] = Idle]
            /\ ev' = [Event("collect_bonus", t, item, lid, u, "none", "effects",
                            <<>>, <<>>) EXCEPT !.fx = r.fx]

\* After the item_collected broadcast: the duration and the multiplier are
\* read from the lobby, then the loop starts.
BonusEffects(t, lid, item, u, btype, cl) ==
    BonusContinue(t, lid, item, u, btype, Duration(lobj[lid], btype),
                  Multiplier(lobj[lid], btype), 1, <<>>, cl)

CollectBonus(c, lid, u, item, btype) ==
    /\ Recv(c)
    /\ UNCHANGED <<lobbies, nextId, owner, client_keys, clients>>
    /\ IF FindById(lid) = {}
       THEN /\ Done(c, "collect_bonus", item, lid, u, "NotFound")
            /\ UNCHANGED lobj
       ELSE IF BonusCheck(lobj[lid], u, item) # "ok"
       THEN /\ Done(c, "collect_bonus", item, lid, u, BonusCheck(lobj[lid], u, item))
            /\ UNCHANGED lobj
       ELSE /\ lobj' = [lobj EXCEPT ![lid].items[item].collected = TRUE]
            /\ IF CanNotify(lid, clients)
               THEN /\ h' = [h EXCEPT ![c] =
                               [Notifying("collect_bonus", item, lid, u,
                                          "item_collected", clients, "bonus",
                                          "none", <<>>) EXCEPT !.btype = btype]]
                    /\ ev' = Event("collect_bonus", c, item, lid, u, "pending",
                                   "item_collected", clients[lid], <<>>)
               ELSE BonusEffects(c, lid, item, u, btype, clients)

----------------------------------------------------------------------------
\* actions "set_bonus_data", "get_lobbies", "ping"; a message whose action
\* no branch handles; a message that is not JSON

SetBonusData(c, lid, u, durations, multipliers) ==
    /\ Recv(c)
    /\ UNCHANGED <<lobbies, nextId, owner, client_keys, clients>>
    /\ IF FindById(lid) = {}
       THEN /\ Done(c, "set_bonus_data", <<durations, multipliers>>, lid, u, "NotFound")
            /\ UNCHANGED lobj
       ELSE IF ~InSeq(u, lobj[lid].players)
       THEN /\ Done(c, "set_bonus_data", <<durations, multipliers>>, lid, u, "NotMember")
            /\ UNCHANGED lobj
       ELSE /\ lobj' = [lobj EXCEPT
                          ![lid].bonus_durations =
                              IF durations # NoDurations THEN durations ELSE @,
                          ![lid].bonus_multipliers =
                              IF multipliers # NoMultipliers THEN multipliers ELSE @]
            /\ Done(c, "set_bonus_data", <<durations, multipliers>>, lid, u, "ok")

\* The lobbies whose status is waiting, as the reply lists them
WaitingLobbies ==
    {[lobby_id |-> lobbies[cr], creator |-> cr,
      current_players |-> Len(lobj[lobbies[cr]].players)] :
        cr \in {k \in DOMAIN lobbies : lobj[lobbies[k]].status = "waiting"}}

GetLobbies(c) ==
    /\ Recv(c)
    /\ UNCHANGED <<lobbies, lobj, clients, client_keys, nextId, owner>>
    /\ h' = [h EXCEPT ![c] = Idle]
    /\ ev' = Event("get_lobbies", c, <<>>, 0, <<>>, "lobbies_list", "", <<>>,
                   WaitingLobbies)

Ping(c) ==
    /\ Recv(c)
    /\ UNCHANGED <<lobbies, lobj, clients, client_keys, nextId, owner>>
    /\ Done(c, "ping", <<>>, 0, <<>>, "pong")

\* No branch of the if/elif chain matches the action: nothing is sent and
\* the loop receives the next message.
Unrecognized(c) ==
    /\ Recv(c)
    /\ UNCHANGED <<lobbies, lobj, clients, client_keys, nextId, owner>>
    /\ Done(c, "unrecognized", <<>>, 0, <<>>, "none")

\* json.loads raises JSONDecodeError, which no except clause catches: the
\* coroutine ends without a reply and without handle_disconnect.
Malformed(c) ==
    /\ Recv(c)
    /\ UNCHANGED <<lobbies, lobj, clients, client_keys, nextId, owner>>
    /\ Fault(c, "malformed", <<>>, 0, <<>>)

----------------------------------------------------------------------------
\* handle_disconnect: the loop over the snapshot of the players, run from
\* the player at the head of users up to the next broadcast that has
\* somebody to send to (canSend), to the end of the loop, or to a failure.

RECURSIVE DiscRun(_, _, _)
DiscRun(lobby, users, canSend) ==
    IF users = <<>> THEN [lobby |-> lobby, users |-> <<>>, st |-> "ended"]
    ELSE LET u == Head(users) IN
         IF u = lobby.creator THEN DiscRun(lobby, Tail(users), canSend)
         ELSE IF ~InSeq(u, lobby.players)
         THEN \* list.remove raises ValueError
              [lobby |-> lobby, users |-> <<>>, st |-> "crashed"]
         ELSE IF u \notin DOMAIN lobby.scores \/ u \notin DOMAIN lobby.positions
         THEN \* del raises KeyError
              [lobby |-> [lobby EXCEPT !.players = ListRemove(@, u)],
               users |-> <<>>, st |-> "crashed"]
         ELSE LET l2 == RemovePlayer(lobby, u) IN
              IF canSend THEN [lobby |-> l2, users |-> Tail(users), st |-> "notify"]
              ELSE DiscRun(l2, Tail(users), canSend)

\* The reconciler continues with the players in users; cl are the connection
\* lists after this segment's own updates.
DiscContinue(t, lid, users, cl) ==
    LET r == DiscRun(lobj[lid], users, CanNotify(lid, cl)) IN
    /\ lobj' = [lobj EXCEPT ![lid] = r.lobby]
    /\ IF r.st = "notify"
       THEN /\ h' = [h EXCEPT ![t] =
                       Notifying("disconnect", <<>>, lid, <<>>, "members", cl,
                                 "disc", "none", r.users)]
            /\ ev' = Event("disconnect", t, <<>>, lid, <<>>, "pending", "members",
                           cl[lid], <<>>)
       ELSE IF r.st = "ended"
       THEN /\ h' = [h EXCEPT ![t] = Ended]
            /\ ev' = Event("disconnect", t, <<>>, lid, <<>>, "done", "", <<>>, <<>>)
       ELSE /\ h' = [h EXCEPT ![t] = Crashed]
            /\ ev' = Event("disconnect", t, <<>>, lid, <<>>, "fault", "", <<>>, <<>>)

\* receive_text raises WebSocketDisconnect: handle_disconnect up to its
\* first broadcast.
Disconnect(c) ==
    /\ h[c].pc = "recv"
    /\ ~alive[c]
    /\ UNCHANGED <<alive, nconn, nmsg, ndrop, nextId, owner, client_keys>>
    /\ LET hits == {id \in client_keys : InSeq(c, clients[id])} IN
       IF hits = {}
       THEN /\ h' = [h EXCEPT ![c] = Ended]
            /\ ev' = Event("disconnect", c, <<>>, 0, <<>>, "done", "", <<>>, <<>>)
            /\ UNCHANGED <<lobbies, lobj, clients>>
       ELSE LET lid == CHOOSE id \in hits : \A o \in hits : id <= o
                cl == [clients EXCEPT ![lid] = ListRemove(@, c)]
            IN /\ clients' = cl
               /\ IF FindById(lid) = {}
                  THEN /\ h' = [h EXCEPT ![c] = Ended]
                       /\ ev' = Event("disconnect", c, <<>>, lid, <<>>, "done", "",
                                      <<>>, <<>>)
                       /\ UNCHANGED <<lobbies, lobj>>
                  ELSE IF cl[lid] = <<>>
                  THEN /\ lobbies' = DictDel(lobbies, KeyOf(lid))
                       /\ h' = [h EXCEPT ![c] = Ended]
                       /\ ev' = Event("disconnect", c, <<>>, lid, <<>>, "done", "",
                                      <<>>, <<>>)
                       /\ UNCHANGED lobj
                  ELSE /\ DiscContinue(c, lid, lobj[lid].players, cl)
                       /\ UNCHANGED lobbies

----------------------------------------------------------------------------
\* notify_clients: the pending send to h[t].to completes (it fails when that
\* connection's transport is lost), and the coroutine runs on to its next
\* send.

NotifyStep(t) ==
    /\ h[t].pc = "notify"
    /\ UNCHANGED <<alive, nconn, nmsg, ndrop, nextId, owner, client_keys, lobbies>>
    /\ LET s == h[t]
           ok == alive[s.to]
           log1 == Append(s.log, [to |-> s.to, ok |-> ok])
           cl == IF ok \/ s.lid \notin client_keys THEN clients
                 ELSE [clients EXCEPT ![s.lid] = ListRemove(@, s.to)]
       IN /\ clients' = cl
          /\ IF ~ok /\ (s.lid \notin client_keys \/ ~InSeq(s.to, clients[s.lid]))
             THEN \* clients[lobby_id].remove(client) raises KeyError / ValueError
                  /\ h' = [h EXCEPT ![t] = Crashed]
                  /\ ev' = Event(s.op, t, s.key, s.lid, s.user, "fault", s.msg,
                                 s.snap, log1)
                  /\ UNCHANGED lobj
             ELSE IF s.i < Len(s.snap)
             THEN /\ h' = [h EXCEPT ![t] =
                             [s EXCEPT !.i = s.i + 1, !.to = s.snap[s.i + 1],
                                       !.log = log1]]
                  /\ ev' = Sent
                  /\ UNCHANGED lobj
             ELSE IF s.cont = "disc"
             THEN DiscContinue(t, s.lid, s.users, cl)
             ELSE IF s.cont = "bonus"
             THEN /\ BonusEffects(t, s.lid, s.key, s.user, s.btype, cl)
                  /\ UNCHANGED lobj
             ELSE IF s.cont = "effect"
             THEN /\ BonusContinue(t, s.lid, s.key, s.user, s.btype, s.dur,
                                   s.mult, s.j + 1, s.fx, cl)
                  /\ UNCHANGED lobj
             ELSE /\ h' = [h EXCEPT ![t] = Idle]
                  /\ ev' = Event(s.op, t, s.key, s.lid, s.user, s.reply, s.msg,
                                 s.snap, log1)
                  /\ UNCHANGED lobj

----------------------------------------------------------------------------
\* The transport of an accepted connection is lost (the peer closes or
\* vanishes).

Drop(c) ==
    /\ Accepted(c)
    /\ alive[c]
    /\ h[c].pc \notin {"ended", "crashed"}
    /\ ndrop < MaxDrops
    /\ alive' = [alive EXCEPT ![c] = FALSE]
    /\ ndrop' = ndrop + 1
    /\ ev' = Event("drop", "", <<>>, 0, <<>>, "", "", <<>>, <<>>)
    /\ UNCHANGED <<lobbies, lobj, clients, client_keys, nextId, owner, h, nconn, nmsg>>

\* The coroutine of a connection ended with an exception: the server closes
\* the connection.
Abort(c) ==
    /\ h[c].pc = "crashed"
    /\ alive[c]
    /\ alive' = [alive EXCEPT ![c] = FALSE]
    /\ ev' = Event("abort", "", <<>>, 0, <<>>, "", "", <<>>, <<>>)
    /\ UNCHANGED <<lobbies, lobj, clients, client_keys, nextId, owner, h, nconn, nmsg,
                   ndrop>>

----------------------------------------------------------------------------

Next ==
    \/ \E c \in Receivers : \E u \in CreateNames : Create(c, u)
    \/ \E t \in Requesters : \E u \in CreateNames : HttpCreate(t, u)
    \/ \E c \in Receivers : \E j \in JoinPairs : Join(c, j[1], j[2])
    \/ \E t \in Requesters : \E j \in JoinPairs : HttpJoin(t, j[1], j[2])
    \/ \E c \in Sender : \E x \in Targets : \E seed \in Seeds :
          Start(c, x[1], x[2], seed)
    \/ \E t \in Requesters : \E x \in Targets : \E seed \in Seeds :
          \E d \in DurationPayloads : HttpStart(t, x[1], x[2], seed, d)
    \/ \E c \in Receivers : \E x \in Targets : Leave(c, x[1], x[2])
    \/ \E c \in Sender : \E x \in Targets : Ready(c, x[1], x[2])
    \/ \E c \in Sender : \E x \in Targets : \E p \in Coords :
          UpdatePosition(c, x[1], x[2], p)
    \/ \E c \in Sender : \E lid \in LobbyIds : \E p \in Payloads :
          RegisterItems(c, lid, p)
    \/ \E c \in Sender : \E x \in Targets : \E i \in ItemIds :
          CollectItem(c, x[1], x[2], i)
    \/ \E c \in Sender : \E x \in Targets : \E m \in Texts :
          SendMessage(c, x[1], x[2], m)
    \/ \E c \in Sender : \E x \in Targets : \E i \in ItemIds :
          \E b \in BonusKinds : CollectBonus(c, x[1], x[2], i, b)
    \/ \E c \in Sender : \E x \in Targets : \E d \in DurationPayloads :
          \E m \in MultiplierPayloads : SetBonusData(c, x[1], x[2], d, m)
    \/ \E c \in Sender : GetLobbies(c)
    \/ \E c \in Sender : Ping(c)
    \/ \E c \in Sender : Unrecognized(c)
    \/ \E c \in Sender : Malformed(c)
    \/ \E c \in Conns : Drop(c)
    \/ \E c \in Conns : Abort(c)
    \/ \E c \in Conns : Disconnect(c)
    \/ \E t \in Tasks : NotifyStep(t)
    \/ \E c \in Conns : CloseStep(c)

Spec == Init /\ [][Next]_vars

\* The server after create by Alice on c1, join by Bob on c2, join by Carol
\* on c3, register_items of two items and ready by Bob and by Carol, all
\* handled to the end.
InitLobby ==
    /\ lobbies = DictSet(<<>>, Alice, 1)
    /\ lobj = DictSet(<<>>, 1,
                [JoinLobby(JoinLobby(NewLobby(Alice), Bob), Carol) EXCEPT
                    !.items = BuildItems(<<>>,
                        <<[item_id |-> "i1", is_bonus |-> FALSE],
                          [item_id |-> "i2", is_bonus |-> TRUE]>>),
                    !.ready_players = <<Bob, Carol>>])
    /\ clients = DictSet(<<>>, 1, <<"c1", "c2", "c3">>)
    /\ client_keys = {1}
    /\ nextId = 2
    /\ owner = DictSet(<<>>, 1, "c1")
    /\ alive = [c \in Conns |-> TRUE]
    /\ h = [t \in Tasks |-> Idle]
    /\ ev = NoEvent
    /\ nconn = 3
    /\ nmsg = Remaining(TRUE)
    /\ ndrop = 0

SpecLobby == InitLobby /\ [][Next]_vars

----------------------------------------------------------------------------
\* Properties

\* The segment that ran is the receipt of a message or request of kind op
Received(op) == nmsg' = nmsg - 1 /\ ev'.op = op

Without(seq, x) == SelectSeq(seq, LAMBDA y : y # x)

Restrict(d, x) == [k \in (DOMAIN d) \ {x} |-> d[k]]

Quiescent ==
    /\ \A t \in Tasks : h[t].pc \in {"recv", "ended", "crashed"}
    /\ \A c \in Conns : alive[c] \/ h[c].pc \in {"ended", "crashed"}

\* C1 (capacity): every lobby has at most max_players members.
C1_AtMostFour == \A id \in DOMAIN lobj : Len(lobj[id].players) <= max_players

\* C1 (rejection), for the joins selected by P: a join (websocket or HTTP)
\* that names a lobby with max_players members is answered Full and changes
\* no lobby.
C1_FullJoinStep(P(_)) ==
    \A op \in {"join", "join_lobby"} :
        (/\ Received(op)
         /\ ev'.key \in DOMAIN lobbies
         /\ Len(lobj[lobbies[ev'.key]].players) >= max_players
         /\ P(ev'.user))
        => (ev'.reply = "Full" /\ lobj' = lobj)

AnyHandle(u) == TRUE

\* C1 as stated: every lobby has at most 4 members, and every join attempted
\* on a lobby that has 4 members fails with Full and leaves the members
\* unchanged.
C1_FullAlwaysFull == []C1_AtMostFour /\ [][C1_FullJoinStep(AnyHandle)]_vars

\* C1 as amended: every lobby has at most 4 members, and every join with a
\* valid joiner handle attempted on a lobby that has 4 members fails with
\* Full and leaves the members unchanged (an invalid joiner handle is
\* answered InvalidHandle, which is checked first).
C1_FullRejectsValid == []C1_AtMostFour /\ [][C1_FullJoinStep(is_valid_username)]_vars

\* A join by a handle that is no member has just been answered Full.
C1_Witness ==
    /\ ev.op \in {"join", "join_lobby"}
    /\ ev.reply = "Full"
    /\ Len(lobj[ev.lid].players) = max_players
    /\ ~InSeq(ev.user, lobj[ev.lid].players)

\* C2: in every lobby the keys of scores and the keys of positions are
\* members of the lobby.
C2_KeysAreMembers ==
    \A id \in DOMAIN lobj :
        /\ DOMAIN lobj[id].scores \subseteq Range(lobj[id].players)
        /\ DOMAIN lobj[id].positions \subseteq Range(lobj[id].players)

\* A non-creator member has left a lobby that keeps other members, and has
\* neither a score nor a position in it any more.
C2_Witness ==
    /\ ev.op = "leave"
    /\ ev.reply = "left"
    /\ Len(lobj[ev.lid].players) >= 2
    /\ ev.user \notin DOMAIN lobj[ev.lid].scores
    /\ ev.user \notin DOMAIN lobj[ev.lid].positions

\* C3: a lobby whose status is started keeps that status in every later
\* state: no step moves it back to waiting.
C3_StartedStays ==
    [][\A id \in DOMAIN lobj :
          lobj[id].status = "started" => lobj'[id].status = "started"]_vars

\* A member has left a started lobby, which is still started.
C3_Witness ==
    /\ ev.op = "leave"
    /\ ev.reply = "left"
    /\ lobj[ev.lid].status = "started"

\* C4: a started lobby never gains a handle: no step adds a member, a score
\* key or a position key to a lobby whose status is started.
C4_StartedGainsNobody ==
    [][\A id \in DOMAIN lobj :
          lobj[id].status = "started"
          => /\ Range(lobj'[id].players) \subseteq Range(lobj[id].players)
             /\ DOMAIN lobj'[id].scores \subseteq DOMAIN lobj[id].scores
             /\ DOMAIN lobj'[id].positions \subseteq DOMAIN lobj[id].positions]_vars

\* C5 (second attempt): a collect_item by a member on an item that is
\* already collected is answered AlreadyCollected and changes no lobby.
C5_SecondAttemptStep ==
    (/\ Received("collect_item")
     /\ FindById(ev'.lid) # {}
     /\ InSeq(ev'.user, lobj[ev'.lid].players)
     /\ ev'.key \in DOMAIN lobj[ev'.lid].items
     /\ lobj[ev'.lid].items[ev'.key].collected)
    => (ev'.reply = "AlreadyCollected" /\ lobj' = lobj)

\* C5 (one point per item): a score changes only in a collect_item, by
\* exactly 1, for the collector alone, and together with the item going
\* from not collected to collected.
C5_ScoreStep ==
    \A id \in DOMAIN lobj :
        \A u \in DOMAIN lobj[id].scores \cap DOMAIN lobj'[id].scores :
            lobj'[id].scores[u] # lobj[id].scores[u]
            => /\ Received("collect_item")
               /\ ev'.lid = id
               /\ ev'.user = u
               /\ lobj'[id].scores[u] = lobj[id].scores[u] + 1
               /\ ~lobj[id].items[ev'.key].collected
               /\ lobj'[id].items[ev'.key].collected
               /\ \A v \in DOMAIN lobj[id].scores \ {u} :
                     v \in DOMAIN lobj'[id].scores
                     /\ lobj'[id].scores[v] = lobj[id].scores[v]

\* C5 (reset): a collected item becomes collectable again only by a
\* register_items.
C5_ResetStep ==
    \A id \in DOMAIN lobj :
        \A i \in DOMAIN lobj[id].items \cap DOMAIN lobj'[id].items :
            (lobj[id].items[i].collected /\ ~lobj'[id].items[i].collected)
            => (Received("register_items") /\ ev'.lid = id)

\* C5: a second collect_item on the same item, by any member and in any
\* interleaving, fails with AlreadyCollected and changes no score; between
\* two registrations an item raises one member's score by 1 at most once.
C5_CollectedOnce == [][C5_SecondAttemptStep /\ C5_ScoreStep /\ C5_ResetStep]_vars

\* An item that gave its point to one member has been refused to another.
C5_Witness ==
    /\ ev.op = "collect_item"
    /\ ev.reply = "AlreadyCollected"
    /\ \E u \in DOMAIN lobj[ev.lid].scores :
          u # ev.user /\ lobj[ev.lid].scores[u] = 1

\* C6: when the creator's leave has been handled, the lobby is in the
\* registry under no key, its creator key is free, its connection set is no
\* key of clients, and every other connection that was attached when the
\* leave arrived has been sent the closure notice.
C6_CreatorLeaveDestroys ==
    (ev.op = "leave" /\ ev.msg = "closed" /\ ev.reply # "pending")
    => /\ ev.reply = "closed"
       /\ FindById(ev.lid) = {}
       /\ ev.key \notin DOMAIN lobbies
       /\ ev.lid \notin client_keys
       /\ \A x \in Range(ev.snap) \ {ev.by} :
             \E k \in 1..Len(ev.log) : ev.log[k].to = x

\* C7 (effect): a leave by a non-creator member keeps the lobby, removes
\* the leaver from members, scores, positions and the ready set, keeps the
\* others' order, scores and positions, keeps status, items, seed and chat
\* log, and detaches the sending connection.
C7_LeaveStep ==
    (/\ Received("leave")
     /\ FindById(ev'.lid) # {}
     /\ ev'.user # lobj[ev'.lid].creator
     /\ InSeq(ev'.user, lobj[ev'.lid].players))
    => LET old == lobj[ev'.lid]
           new == lobj'[ev'.lid]
           u == ev'.user
       IN /\ lobbies' = lobbies
          /\ new.players = Without(old.players, u)
          /\ new.scores = Restrict(old.scores, u)
          /\ new.positions = Restrict(old.positions, u)
          /\ new.ready_players = Without(old.ready_players, u)
          /\ new.status = old.status
          /\ new.items = old.items
          /\ new.seed = old.seed
          /\ new.messages = old.messages
          /\ ev'.lid \in client_keys' => ~InSeq(ev'.by, clients'[ev'.lid])

\* C7 (broadcast): when the leave has been handled, every connection that
\* remained attached has been sent the new members and status.
C7_LeaveSent ==
    (ev.op = "leave" /\ ev.msg = "members" /\ ev.reply # "pending")
    => (ev.reply = "left" /\ Len(ev.log) = Len(ev.snap))

\* C7: a non-creator member's leave has the effect C7_LeaveStep and ends
\* with the broadcast C7_LeaveSent.
C7_MemberLeave == []C7_LeaveSent /\ [][C7_LeaveStep]_vars

\* C8: when the disconnect of the connection that created a lobby has been
\* reconciled, that lobby is not in the registry.
C8_CreatorDisconnectDestroys ==
    (ev.op = "disconnect" /\ ev.reply = "done")
    => \A id \in DOMAIN owner : owner[id] = ev.by => FindById(id) = {}

\* C9: when no operation is in progress, no lobby that was created over a
\* connection is in the registry with an empty connection set.
C9_NoEmptyLobby ==
    Quiescent
    => \A c \in DOMAIN lobbies :
          owner[lobbies[c]] \in Conns
          => (lobbies[c] \in client_keys /\ clients[lobbies[c]] # <<>>)

\* C10: a broadcast that has ended has sent the message once to every
\* connection attached when it began, none of them twice, was not cut short
\* by a failed send, and every connection whose send failed is out of the
\* lobby's connection set.
C10_BroadcastReachesAll ==
    (ev.snap # <<>> /\ ev.msg \notin {"", "closed"} /\ ev.reply # "pending")
    => /\ Len(ev.log) = Len(ev.snap)
       /\ \A k \in 1..Len(ev.log) : ev.log[k].to = ev.snap[k]
       /\ \A j, k \in 1..Len(ev.snap) : ev.snap[j] = ev.snap[k] => j = k
       /\ \A k \in 1..Len(ev.log) :
             ~ev.log[k].ok => ~InSeq(ev.log[k].to, clients[ev.lid])

\* The actions of the dispatcher that have preconditions
DispatcherOps ==
    {"create", "join", "start", "ready", "leave", "update_position",
     "register_items", "collect_item", "collect_bonus", "set_bonus_data",
     "send_message"}

\* The first precondition of the action that fails, the preconditions taken
\* in the order in which the dispatcher's contract lists them ("ok": none
\* fails).  key is the creator handle of create and join, the item id of
\* the collect actions and the text of send_message.
FirstFailure(op, key, lid, u) ==
    IF op = "create"
    THEN (IF ~is_valid_username(u) THEN "InvalidHandle"
          ELSE IF u \in DOMAIN lobbies THEN "DuplicateLobby" ELSE "ok")
    ELSE IF op = "join"
    THEN (IF ~(is_valid_username(key) /\ is_valid_username(u)) THEN "InvalidHandle"
          ELSE IF key \notin DOMAIN lobbies THEN "NotFound"
          ELSE IF Len(lobj[lobbies[key]].players) >= max_players THEN "Full"
          ELSE IF InSeq(u, lobj[lobbies[key]].players) THEN "AlreadyMember"
          ELSE IF lobj[lobbies[key]].status = "started" THEN "AlreadyStarted"
          ELSE "ok")
    ELSE IF FindById(lid) = {} THEN "NotFound"
    ELSE IF op = "start"
    THEN (IF u # lobj[lid].creator THEN "NotCreator" ELSE "ok")
    ELSE IF op \in {"leave", "register_items"} THEN "ok"
    ELSE IF ~InSeq(u, lobj[lid].players) THEN "NotMember"
    ELSE IF op = "send_message"
    THEN (IF \A k \in 1..Len(key) : key[k] = " " THEN "InvalidPayload" ELSE "ok")
    ELSE IF op \in {"collect_item", "collect_bonus"}
    THEN (IF key \notin DOMAIN lobj[lid].items THEN "ItemNotFound"
          ELSE IF op = "collect_bonus" /\ ~lobj[lid].items[key].is_bonus
          THEN "WrongItemKind"
          ELSE IF lobj[lid].items[key].collected THEN "AlreadyCollected"
          ELSE "ok")
    ELSE "ok"

\* C11: when a message of a dispatcher action arrives and one of the
\* action's preconditions fails, the sender is answered with the error of
\* the first precondition that fails (lobby exists before handle is member,
\* item exists before is_bonus before not yet collected), the handling ends
\* there (no broadcast begins, so that no other connection is sent
\* anything), and the registry, the lobbies and the connection sets are
\* unchanged.
C11_PreconditionFails ==
    [][\A op \in DispatcherOps :
          (Received(op)
           /\ FirstFailure(op, ev'.key, ev'.lid, ev'.user) # "ok")
          => /\ ev'.reply = FirstFailure(op, ev'.key, ev'.lid, ev'.user)
             /\ h' = h
             /\ UNCHANGED <<lobbies, lobj, clients, client_keys>>]_vars

\* A collect_bonus on an item that is collected and is no bonus has been
\* answered with the error of the is_bonus test.
C11_Witness ==
    /\ ev.op = "collect_bonus"
    /\ ev.reply = "WrongItemKind"
    /\ InSeq(ev.user, lobj[ev.lid].players)
    /\ lobj[ev.lid].items[ev.key].collected

\* C12 (duplicate): a create (websocket or HTTP) that names a handle under
\* which a lobby is registered is answered DuplicateLobby and changes
\* neither the registry, nor a lobby, nor a connection set.
C12_DuplicateStep ==
    \A op \in {"create", "create_lobby"} :
        (Received(op) /\ ev'.user \in DOMAIN lobbies)
        => /\ ev'.reply = "DuplicateLobby"
           /\ UNCHANGED <<lobbies, lobj, clients, client_keys>>

\* C12 (create again): a create that names a valid handle under which no
\* lobby is registered succeeds with a lobby whose id no lobby ever had,
\* whose only member is the creator, and changes no other registry entry.
C12_FreshStep ==
    \A op \in {"create", "create_lobby"} :
        (Received(op) /\ is_valid_username(ev'.user) /\ ev'.user \notin DOMAIN lobbies)
        => /\ ev'.reply = "ok"
           /\ ev'.lid \notin DOMAIN lobj
           /\ ev'.lid \notin client_keys
           /\ lobbies' = DictSet(lobbies, ev'.user, ev'.lid)
           /\ lobj'[ev'.lid].players = <<ev'.user>>
           /\ lobj'[ev'.lid].status = "waiting"
           /\ \A id \in DOMAIN lobj : lobj'[id] = lobj[id]

\* C12: a create under a registered creator handle always yields
\* DuplicateLobby and changes nothing; once that lobby is destroyed, create
\* with the handle succeeds again with a fresh lobby.
C12_DuplicateCreate == [][C12_DuplicateStep /\ C12_FreshStep]_vars

\* A create has succeeded under a handle whose earlier lobby was destroyed.
C12_Witness ==
    /\ ev.op \in {"create", "create_lobby"}
    /\ ev.reply = "ok"
    /\ \E id \in DOMAIN lobj : id # ev.lid /\ lobj[id].creator = ev.user

\* C13 (rejection): a start (websocket or HTTP) of a registered lobby by a
\* handle other than its creator is answered NotCreator, changes no lobby
\* (status, seed and bonus configuration stay) and begins no broadcast.
C13_NotCreatorStep ==
    \A op \in {"start", "start_game"} :
        (/\ Received(op)
         /\ FindById(ev'.lid) # {}
         /\ ev'.user # lobj[ev'.lid].creator)
        => /\ ev'.reply = "NotCreator"
           /\ lobj' = lobj
           /\ h' = h

\* C13 (start): a start of a registered lobby by its creator sets the status
\* to started and the seed to the value supplied, changes neither members,
\* scores nor items, and begins the broadcast of the started message
\* (members, status started, seed, items) to the connections attached to the
\* lobby.
C13_CreatorStep ==
    \A op \in {"start", "start_game"} :
        (/\ Received(op)
         /\ FindById(ev'.lid) # {}
         /\ ev'.user = lobj[ev'.lid].creator)
        => LET id == ev'.lid IN
           /\ lobj'[id].status = "started"
           /\ lobj'[id].seed = ev'.key
           /\ lobj'[id].players = lobj[id].players
           /\ lobj'[id].scores = lobj[id].scores
           /\ lobj'[id].items = lobj[id].items
           /\ ev'.msg = "started"
           /\ (id \in client_keys /\ clients[id] # <<>>)
              => /\ h'[ev'.by].pc = "notify"
                 /\ h'[ev'.by].msg = "started"
                 /\ h'[ev'.by].snap = clients[id]

C14_JoinStep ==
    (Received("join") /\ FirstFailure("join", ev'.key, 0, ev'.user) = "ok")
    => LET id == lobbies[ev'.key]
           old == lobj[id]
           new == lobj'[id]
           u == ev'.user
       IN /\ ev'.lid = id
          /\ new.players = Append(old.players, u)
          /\ DOMAIN new.scores = DOMAIN old.scores \cup {u}
          /\ new.scores[u] = 0
          /\ \A v \in DOMAIN old.scores : new.scores[v] = old.scores[v]
          /\ DOMAIN new.positions = DOMAIN old.positions \cup {u}
          /\ new.positions[u] = Origin
          /\ \A v \in DOMAIN old.positions : new.positions[v] = old.positions[v]
          /\ new = [old EXCEPT !.players = new.players, !.scores = new.scores,
                               !.positions = new.positions]
          /\ \A o \in DOMAIN lobj \ {id} : lobj'[o] = lobj[o]
          /\ id \in client_keys
          /\ clients'[id] = Append(clients[id], ev'.by)
          /\ ev'.msg = "members"
          /\ h'[ev'.by].pc = "notify"
          /\ h'[ev'.by].msg = "members"
          /\ h'[ev'.by].snap = clients'[id]
          /\ h'[ev'.by].reply = "ok"

C15_BadMessageAnswered ==
    (ev.op \in {"unrecognized", "malformed"})
    => /\ ev.reply \in {"InvalidPayload", "Unrecognized"}
       /\ h[ev.by].pc = "recv"

\* C16: when a leave that names a registered lobby has been handled, the
\* sender has been sent the ack (of the closure on the creator path, of the
\* removal on the other path).
C16_LeaveAcked ==
    (ev.op = "leave" /\ ev.reply \notin {"pending", "NotFound"})
    => ev.reply \in {"left", "closed"}

\* C17: when the reconciliation of a disconnect has ended and the lobby is
\* still registered with a non-empty connection set, the lobby's only member
\* is its creator, scores and positions have the creator's key only, and no
\* other handle is in the ready set.
C17_OnlyCreatorRemains ==
    (/\ ev.op = "disconnect"
     /\ ev.reply = "done"
     /\ FindById(ev.lid) # {}
     /\ ev.lid \in client_keys
     /\ clients[ev.lid] # <<>>)
    => LET lobby == lobj[ev.lid] IN
       /\ lobby.players = <<lobby.creator>>
       /\ DOMAIN lobby.scores = {lobby.creator}
       /\ DOMAIN lobby.positions = {lobby.creator}
       /\ Range(lobby.ready_players) \subseteq {lobby.creator}

\* C18: every connection is in at most one lobby's connection set, and at
\* most once in it.
C18_AttachedOnce ==
    \A c \in Conns :
        /\ \A a, b \in client_keys :
              (InSeq(c, clients[a]) /\ InSeq(c, clients[b])) => a = b
        /\ \A id \in client_keys :
              \A j, k \in 1..Len(clients[id]) :
                 (clients[id][j] = c /\ clients[id][k] = c) => j = k

\* C19: the ids that have a connection set are exactly the ids of the
\* lobbies in the registry.
C19_SetsMatchRegistry ==
    client_keys = {lobbies[cr] : cr \in DOMAIN lobbies}

\* C20 (step): a ready of a member of a registered lobby that is not yet in
\* the ready set adds the member to it, once, and changes nothing else; the
\* broadcast of the all-ready signal to the connections of the lobby begins
\* in that step exactly when the ready set now equals the set of members.
\* A ready of a member that is already in the ready set changes nothing and
\* begins no broadcast.
C20_ReadyStep ==
    (/\ Received("ready")
     /\ FindById(ev'.lid) # {}
     /\ InSeq(ev'.user, lobj[ev'.lid].players))
    => LET id == ev'.lid
           u == ev'.user
           old == lobj[id]
           new == lobj'[id]
       IN IF InSeq(u, old.ready_players)
          THEN /\ lobj' = lobj
               /\ h' = h
               /\ ev'.msg = ""
          ELSE /\ new = [old EXCEPT !.ready_players = Append(old.ready_players, u)]
               /\ Cardinality({k \in 1..Len(new.ready_players) :
                                  new.ready_players[k] = u}) = 1
               /\ \A o \in DOMAIN lobj \ {id} : lobj'[o] = lobj[o]
               /\ (Range(new.ready_players) = Range(new.players))
                  <=> ev'.msg = "start_game"
               /\ IF ev'.msg = "start_game" /\ id \in client_keys
                                            /\ clients[id] # <<>>
                  THEN /\ h'[ev'.by].pc = "notify"
                       /\ h'[ev'.by].msg = "start_game"
                       /\ h'[ev'.by].snap = clients[id]
                  ELSE h' = h

C21_CollectStep ==
    (/\ Received("collect_bonus")
     /\ FindById(ev'.lid) # {}
     /\ BonusCheck(lobj[ev'.lid], ev'.user, ev'.key) = "ok")
    => /\ lobj'[ev'.lid] = [lobj[ev'.lid] EXCEPT !.items[ev'.key].collected = TRUE]
       /\ CanNotify(ev'.lid, clients)
          => /\ h'[ev'.by].pc = "notify"
             /\ h'[ev'.by].msg = "item_collected"
             /\ h'[ev'.by].snap = clients[ev'.lid]

\* C21 (effects): when the handling of a collect_bonus ends, one apply_effect
\* broadcast has been begun for each member other than the collector and
\* none for the collector, each with a duration of the lobby's bonus
\* configuration or the default.
C21_EffectsStep ==
    (ev'.op = "collect_bonus" /\ ev'.msg = "effects" /\ FindById(ev'.lid) # {})
    => LET lobby == lobj'[ev'.lid]
           others == Range(lobby.players) \ {ev'.user}
       IN /\ {ev'.fx[k].target : k \in 1..Len(ev'.fx)} = others
          /\ Len(ev'.fx) = Cardinality(others)
          /\ \A k \in 1..Len(ev'.fx) :
                ev'.fx[k].duration \in
                    {lobby.bonus_durations[b] : b \in DOMAIN lobby.bonus_durations}
                    \cup {DefaultDuration}

\* C21 (score): no handling of a collection of a bonus item, by collect_item
\* or by collect_bonus, changes a score.
C21_NoScoreStep ==
    (/\ ev'.op \in {"collect_item", "collect_bonus"}
     /\ FindById(ev'.lid) # {}
     /\ ev'.key \in DOMAIN lobj[ev'.lid].items
     /\ lobj[ev'.lid].items[ev'.key].is_bonus)
    => lobj'[ev'.lid].scores = lobj[ev'.lid].scores

\* C21: a collected bonus is marked, announced, gives one effect to each
\* other member and never a score.
C21_BonusGivesEffects ==
    [][C21_CollectStep /\ C21_EffectsStep /\ C21_NoScoreStep]_vars

\* C22: a set_bonus_data by a member of a registered lobby leaves every
\* duration key and every multiplier key that its payload does not supply
\* in the configuration, with the value the key had before.
C22_SetStep ==
    (/\ Received("set_bonus_data")
     /\ FindById(ev'.lid) # {}
     /\ InSeq(ev'.user, lobj[ev'.lid].players))
    => LET old == lobj[ev'.lid]
           new == lobj'[ev'.lid]
       IN /\ \A b \in (DOMAIN old.bonus_durations) \ (DOMAIN ev'.key[1]) :
                /\ b \in DOMAIN new.bonus_durations
                /\ new.bonus_durations[b] = old.bonus_durations[b]
          /\ \A m \in (DOMAIN old.bonus_multipliers) \ (DOMAIN ev'.key[2]) :
                /\ m \in DOMAIN new.bonus_multipliers
                /\ new.bonus_multipliers[m] = old.bonus_multipliers[m]

C22_PartialUpdate == [][C22_SetStep]_vars

\* C23 (step): a register_items that names a registered lobby makes the
\* lobby's item ids exactly the non-empty ids of the payload's entries, each
\* item not collected and a bonus as the payload says, changes nothing else
\* of the lobby (members, scores, status) and no other lobby, and begins the
\* broadcast of the item count to the connections of the lobby.
C23_RegisterStep ==
    (Received("register_items") /\ FindById(ev'.lid) # {})
    => LET id == ev'.lid
           payload == ev'.key
           old == lobj[id]
           new == lobj'[id]
           ids == {payload[k].item_id : k \in {n \in 1..Len(payload) :
                                                 payload[n].item_id # ""}}
       IN /\ DOMAIN new.items = ids
          /\ \A it \in ids :
                /\ ~new.items[it].collected
                /\ \E k \in 1..Len(payload) :
                      /\ payload[k].item_id = it
                      /\ payload[k].is_bonus = new.items[it].is_bonus
          /\ new = [old EXCEPT !.items = new.items]
          /\ \A o \in DOMAIN lobj \ {id} : lobj'[o] = lobj[o]
          /\ ev'.msg = "items_registered"
          /\ CanNotify(id, clients)
             => /\ h'[ev'.by].pc = "notify"
                /\ h'[ev'.by].msg = "items_registered"
                /\ h'[ev'.by].snap = clients[id]

C24_NoUnhandledFailure ==
    ev.reply = "fault" => ev.op = "malformed"

\* C25: a connection whose handler has ended, after the loss of its
\* transport or with a failure, is in no lobby's connection set.
C25_EndedDetached ==
    \A c \in Conns :
        h[c].pc \in {"ended", "crashed"}
        => \A id \in client_keys : ~InSeq(c, clients[id])

\* C26: in every lobby the ready set has no duplicate and holds members
\* only.
C26_ReadyWithinMembers ==
    \A id \in DOMAIN lobj :
        LET ready == lobj[id].ready_players IN
        /\ \A j, k \in 1..Len(ready) : ready[j] = ready[k] => j = k
        /\ Range(ready) \subseteq Range(lobj[id].players)

\* Bob, who was ready, has left and his leave has been acked: the ready set
\* holds Carol only, and the members are Alice and Carol.
C26_Witness ==
    /\ ev.op = "leave"
    /\ ev.reply = "left"
    /\ ev.user = Bob
    /\ lobj[ev.lid].players = <<Alice, Carol>>
    /\ lobj[ev.lid].ready_players = <<Carol>>

====
